---- MODULE Spec2Model ----
(***************************************************************************)
(* Model of the two dirty-flag wrappers of the Tracked crate:              *)
(*   Tracked<T: PartialEq + Copy>   (src/src/value.rs)                     *)
(*   TrackedRef<T>                  (src/src/reference.rs)                 *)
(* One instance of each is driven by an arbitrary caller.  Every public    *)
(* method is an operator on the wrapper's fields returning the new fields  *)
(* and the returned value; every call is an action.  History variables     *)
(* record what the caller has seen so that the claims can be stated.       *)
(***************************************************************************)
EXTENDS Integers, FiniteSets, Sequences, TLC

\* Largest element of the value type T used by the caller.
MaxVal == 2

\* The inhabitants of T tried by the caller.
Values == 0..MaxVal

VARIABLES
    t,      \* the Tracked<T> instance: [fresh, val]
    r,      \* the TrackedRef<T> instance: [fresh, val]
    rview,  \* the view into r.val the caller still holds
    lt,     \* the last call on t: method, argument, result, fields before
    lr,     \* the last call on r (or write through its &mut T view)
    ht,     \* history of t since construction / the last consuming read
    hr,     \* history of r since construction / the last consuming read
    ct,     \* the copy made of t, if any
    cr,     \* the clone made of r, if any
    ld      \* the last call while duplicates are in play

vars == <<t, r, rview, lt, lr, ht, hr, ct, cr, ld>>

-----------------------------------------------------------------------------
(* Results of the methods.  The tag is always compared first.              *)

Unit == [tag |-> "unit"]
None == [tag |-> "none"]
Some(v) == [tag |-> "some", v |-> v]
Val(v) == [tag |-> "val", v |-> v]
Bool(b) == [tag |-> "bool", b |-> b]

\* T's PartialEq::ne, as used by `self.val != val`.
Ne(a, b) == a # b

-----------------------------------------------------------------------------
(* Tracked<T>, src/src/value.rs                                            *)

\* new() that forgets to mark the value fresh.
Tracked_new_Stale(val) == [fresh |-> FALSE, val |-> val]

Tracked_new(val) == [fresh |-> TRUE, val |-> val]

\* set() that stores the value without touching the flag.
Tracked_set_KeepsFlag(self, val) ==
    IF Ne(self.val, val)
    THEN [self |-> [self EXCEPT !.val = val], ret |-> Unit]
    ELSE [self |-> self, ret |-> Unit]

\* set() that assigns the comparison result to the flag.
Tracked_set_FlagIsDiff(self, val) ==
    [self |-> [fresh |-> Ne(self.val, val), val |-> val], ret |-> Unit]

Tracked_set(self, val) ==
    IF Ne(self.val, val)
    THEN [self |-> [fresh |-> TRUE, val |-> val], ret |-> Unit]
    ELSE [self |-> self, ret |-> Unit]

\* get() that returns the value without clearing the flag.
Tracked_get_NoClear(self) == [self |-> self, ret |-> Val(self.val)]

Tracked_get(self) ==
    [self |-> [self EXCEPT !.fresh = FALSE], ret |-> Val(self.val)]

Tracked_get_if_fresh(self) ==
    IF self.fresh
    THEN LET g == Tracked_get(self) IN [self |-> g.self, ret |-> Some(g.ret.v)]
    ELSE [self |-> self, ret |-> None]

Tracked_peek(self) == [self |-> self, ret |-> Val(self.val)]

Tracked_is_fresh(self) == [self |-> self, ret |-> Bool(self.fresh)]

\* A wrapper returned by value (`Self`): a new struct with its own fields.
Owned(w) == [tag |-> "owned", w |-> w]

\* A duplicate that is a handle to the fields of the original.
Tracked_clone_Alias(self) == [self |-> self, ret |-> [tag |-> "alias"]]

\* #[derive(Copy, Clone)]: both fields are copied into a new struct.
Tracked_clone(self) ==
    [self |-> self, ret |-> Owned([fresh |-> self.fresh, val |-> self.val])]

\* T::default(); 0 for the integer types.
T_default == 0

\* What #[derive(Default)] would build: both fields defaulted.
Tracked_default_Derived == [fresh |-> FALSE, val |-> T_default]

Tracked_default == Tracked_new(T_default)

-----------------------------------------------------------------------------
(* TrackedRef<T>, src/src/reference.rs                                     *)

TrackedRef_new(val) == [fresh |-> TRUE, val |-> val]

\* get() that returns the reference without clearing the flag.
TrackedRef_get_NoClear(self) == [self |-> self, ret |-> Val(self.val)]

TrackedRef_get(self) ==
    [self |-> [self EXCEPT !.fresh = FALSE], ret |-> Val(self.val)]

\* get_mut() that hands out the reference without marking fresh.
TrackedRef_get_mut_NoMark(self) == [self |-> self, ret |-> Val(self.val)]

TrackedRef_get_mut(self) ==
    [self |-> [self EXCEPT !.fresh = TRUE], ret |-> Val(self.val)]

\* get_if_fresh() that delegates to get() without testing the flag.
TrackedRef_get_if_fresh_Unchecked(self) ==
    LET g == TrackedRef_get(self) IN [self |-> g.self, ret |-> Some(g.ret.v)]

TrackedRef_get_if_fresh(self) ==
    IF self.fresh
    THEN LET g == TrackedRef_get(self) IN [self |-> g.self, ret |-> Some(g.ret.v)]
    ELSE [self |-> self, ret |-> None]

\* peek() with the body of get().
TrackedRef_peek_Consumes(self) ==
    [self |-> [self EXCEPT !.fresh = FALSE], ret |-> Val(self.val)]

TrackedRef_peek(self) == [self |-> self, ret |-> Val(self.val)]

TrackedRef_is_fresh(self) == [self |-> self, ret |-> Bool(self.fresh)]

\* set() without the comparison.
TrackedRef_set_AlwaysFresh(self, val) ==
    [self |-> [fresh |-> TRUE, val |-> val], ret |-> Unit]

TrackedRef_set(self, val) ==
    IF Ne(self.val, val)
    THEN [self |-> [fresh |-> TRUE, val |-> val], ret |-> Unit]
    ELSE [self |-> self, ret |-> Unit]

\* T's Clone::clone, for value types without shared interior state.
T_clone(v) == v

\* clone() written as new(self.val.clone()).
TrackedRef_clone_Fresh(self) ==
    [self |-> self, ret |-> Owned(TrackedRef_new(T_clone(self.val)))]

TrackedRef_clone(self) ==
    [self |-> self,
     ret |-> Owned([fresh |-> self.fresh, val |-> T_clone(self.val)])]

-----------------------------------------------------------------------------
(* History of a wrapper: what was stored and returned since construction  *)
(* or the last freshness-consuming read.  It never reads the fresh flag.   *)

NoVal == -1

Methods ==
    {"new", "default", "set", "get", "get_mut", "write", "get_if_fresh", "peek",
     "is_fresh"}

\* Views into r.val: none, shared (&T from peek(&self)), excl (&T from
\* get/get_if_fresh, which borrow self mutably), mut (&mut T from get_mut).
Views == {"none", "shared", "excl", "mut"}

RetVal(ret) == IF ret.tag \in {"some", "val"} THEN ret.v ELSE NoVal

\* A wrapper has just been constructed around v.
HistNew(v) ==
    [hasRead |-> FALSE, lastRead |-> NoVal, written |-> TRUE,
     mutGranted |-> FALSE, differed |-> FALSE]

\* A freshness-consuming read returned `ret` while `val` was stored.
HistRead(h, ret, val) ==
    [hasRead |-> TRUE, lastRead |-> RetVal(ret), written |-> FALSE,
     mutGranted |-> FALSE, differed |-> val # RetVal(ret)]

\* The stored value went from old to new (possibly the same value).
\* `differed`: the value stored has been unequal to the one last read.
HistStore(h, old, new) ==
    [h EXCEPT !.written = @ \/ (old # new),
              !.differed = @ \/ (h.hasRead /\ new # h.lastRead)]

\* Exclusive mutable access was handed out.
HistMut(h) == [h EXCEPT !.mutGranted = TRUE]

Call(op, arg, ret, pre) ==
    [op |-> op, arg |-> arg, ret |-> ret, pre |-> pre]

\* A view taken through &self survives another &self call; every other
\* view is dead once the wrapper is borrowed again.
KeepShared(v) == IF v = "shared" THEN "shared" ELSE "none"

-----------------------------------------------------------------------------
(* Duplicates: `let c = t` (Tracked is Copy) and `let c = r.clone()`.      *)

\* Fields of a wrapper that does not exist.
NoFields == [fresh |-> FALSE, val |-> NoVal]

\* No duplicate has been made.
NoDup == [st |-> "none", w |-> NoFields, view |-> "none"]

\* The caller binds the result of a duplication to a new variable.
Bind(ret) ==
    IF ret.tag = "owned"
    THEN [st |-> "own", w |-> ret.w, view |-> "none"]
    ELSE [st |-> "alias", w |-> NoFields, view |-> "none"]

\* The fields a duplicate reads and writes: its own.
FieldsOf(c, orig) == IF c.st = "own" THEN c.w ELSE orig

DupCall(recv, op, pre, other) ==
    [recv |-> recv, op |-> op, pre |-> pre, other |-> other]

NoCall == DupCall("none", "none", NoFields, NoFields)

TOps == {"set", "get", "get_if_fresh", "peek", "is_fresh"}

ROps == TOps \cup {"get_mut"}

Args(op) == IF op = "set" THEN Values ELSE {NoVal}

Tracked_call(op, self, v) ==
    CASE op = "set" -> Tracked_set(self, v)
      [] op = "get" -> Tracked_get(self)
      [] op = "get_if_fresh" -> Tracked_get_if_fresh(self)
      [] op = "peek" -> Tracked_peek(self)
      [] op = "is_fresh" -> Tracked_is_fresh(self)

TrackedRef_call(op, self, v) ==
    CASE op = "set" -> TrackedRef_set(self, v)
      [] op = "get" -> TrackedRef_get(self)
      [] op = "get_mut" -> TrackedRef_get_mut(self)
      [] op = "get_if_fresh" -> TrackedRef_get_if_fresh(self)
      [] op = "peek" -> TrackedRef_peek(self)
      [] op = "is_fresh" -> TrackedRef_is_fresh(self)

\* The view the caller holds after a call, from the receiver and the
\* return type of the method.
ViewAfter(op, ret, view) ==
    CASE op = "get_mut" -> "mut"
      [] op = "get" -> "excl"
      [] op = "get_if_fresh" -> IF ret.tag = "some" THEN "excl" ELSE "none"
      [] op = "peek" -> "shared"
      [] op \in {"is_fresh", "clone"} -> KeepShared(view)
      [] OTHER -> "none"

-----------------------------------------------------------------------------
(* Calls on the Tracked<T> instance                                        *)

\* A call on one wrapper leaves the other wrapper alone.
TFrame == UNCHANGED <<t, lt, ht>>

RFrame == UNCHANGED <<r, rview, lr, hr>>

\* No duplicate is made while t and r are driven on their own.
DFrame == UNCHANGED <<ct, cr, ld>>

TNewCall(v) ==
    /\ t' = Tracked_new(v)
    /\ ht' = HistNew(v)
    /\ lt' = Call("new", v, Unit, Tracked_new(v))

TNew(v) == TNewCall(v) /\ RFrame /\ DFrame

TDefaultCall ==
    /\ t' = Tracked_default
    /\ ht' = HistNew(Tracked_default.val)
    /\ lt' = Call("default", NoVal, Unit, Tracked_default)

TDefault == TDefaultCall /\ RFrame /\ DFrame

TSetCall(v) ==
    LET c == Tracked_set(t, v) IN
    /\ t' = c.self
    /\ ht' = HistStore(ht, t.val, c.self.val)
    /\ lt' = Call("set", v, c.ret, t)

TSet(v) == TSetCall(v) /\ RFrame /\ DFrame

TGetCall ==
    LET c == Tracked_get(t) IN
    /\ t' = c.self
    /\ ht' = HistRead(ht, c.ret, c.self.val)
    /\ lt' = Call("get", NoVal, c.ret, t)

TGet == TGetCall /\ RFrame /\ DFrame

TGetIfFreshCall ==
    LET c == Tracked_get_if_fresh(t) IN
    /\ t' = c.self
    /\ ht' = IF t.fresh THEN HistRead(ht, c.ret, c.self.val)
                        ELSE HistStore(ht, t.val, c.self.val)
    /\ lt' = Call("get_if_fresh", NoVal, c.ret, t)

TGetIfFresh == TGetIfFreshCall /\ RFrame /\ DFrame

TPeekCall ==
    LET c == Tracked_peek(t) IN
    /\ t' = c.self
    /\ ht' = HistStore(ht, t.val, c.self.val)
    /\ lt' = Call("peek", NoVal, c.ret, t)

TPeek == TPeekCall /\ RFrame /\ DFrame

TIsFreshCall ==
    LET c == Tracked_is_fresh(t) IN
    /\ t' = c.self
    /\ ht' = HistStore(ht, t.val, c.self.val)
    /\ lt' = Call("is_fresh", NoVal, c.ret, t)

TIsFresh == TIsFreshCall /\ RFrame /\ DFrame

-----------------------------------------------------------------------------
(* Calls on the TrackedRef<T> instance                                     *)

RNewCall(v) ==
    /\ r' = TrackedRef_new(v)
    /\ rview' = "none"
    /\ hr' = HistNew(v)
    /\ lr' = Call("new", v, Unit, TrackedRef_new(v))

RNew(v) == RNewCall(v) /\ TFrame /\ DFrame

RSetCall(v) ==
    LET c == TrackedRef_set(r, v) IN
    /\ r' = c.self
    /\ rview' = "none"
    /\ hr' = HistStore(hr, r.val, c.self.val)
    /\ lr' = Call("set", v, c.ret, r)

RSet(v) == RSetCall(v) /\ TFrame /\ DFrame

RGetCall ==
    LET c == TrackedRef_get(r) IN
    /\ r' = c.self
    /\ rview' = "excl"
    /\ hr' = HistRead(hr, c.ret, c.self.val)
    /\ lr' = Call("get", NoVal, c.ret, r)

RGet == RGetCall /\ TFrame /\ DFrame

RGetMutCall ==
    LET c == TrackedRef_get_mut(r) IN
    /\ r' = c.self
    /\ rview' = "mut"
    /\ hr' = HistMut(HistStore(hr, r.val, c.self.val))
    /\ lr' = Call("get_mut", NoVal, c.ret, r)

RGetMut == RGetMutCall /\ TFrame /\ DFrame

\* The caller assigns through the &mut T it got from get_mut().
RWrite(v) ==
    /\ rview = "mut"
    /\ r' = [r EXCEPT !.val = v]
    /\ hr' = HistStore(hr, r.val, v)
    /\ lr' = Call("write", v, Unit, r)
    /\ UNCHANGED rview
    /\ TFrame
    /\ DFrame

RGetIfFreshCall ==
    LET c == TrackedRef_get_if_fresh(r) IN
    /\ r' = c.self
    /\ rview' = IF c.ret.tag = "some" THEN "excl" ELSE "none"
    /\ hr' = IF r.fresh THEN HistRead(hr, c.ret, c.self.val)
                        ELSE HistStore(hr, r.val, c.self.val)
    /\ lr' = Call("get_if_fresh", NoVal, c.ret, r)

RGetIfFresh == RGetIfFreshCall /\ TFrame /\ DFrame

RPeekCall ==
    LET c == TrackedRef_peek(r) IN
    /\ r' = c.self
    /\ rview' = "shared"
    /\ hr' = HistStore(hr, r.val, c.self.val)
    /\ lr' = Call("peek", NoVal, c.ret, r)

RPeek == RPeekCall /\ TFrame /\ DFrame

RIsFreshCall ==
    LET c == TrackedRef_is_fresh(r) IN
    /\ r' = c.self
    /\ rview' = KeepShared(rview)
    /\ hr' = HistStore(hr, r.val, c.self.val)
    /\ lr' = Call("is_fresh", NoVal, c.ret, r)

RIsFresh == RIsFreshCall /\ TFrame /\ DFrame

-----------------------------------------------------------------------------

Init ==
    \E v \in Values, w \in Values :
        /\ t = Tracked_new(v)
        /\ r = TrackedRef_new(w)
        /\ rview = "none"
        /\ ht = HistNew(v)
        /\ hr = HistNew(w)
        /\ lt = Call("new", v, Unit, Tracked_new(v))
        /\ lr = Call("new", w, Unit, TrackedRef_new(w))
        /\ ct = NoDup
        /\ cr = NoDup
        /\ ld = NoCall

Next ==
    \/ \E v \in Values : TNew(v)
    \/ TDefault
    \/ \E v \in Values : TSet(v)
    \/ TGet
    \/ TGetIfFresh
    \/ TPeek
    \/ TIsFresh
    \/ \E v \in Values : RNew(v)
    \/ \E v \in Values : RSet(v)
    \/ RGet
    \/ RGetMut
    \/ \E v \in Values : RWrite(v)
    \/ RGetIfFresh
    \/ RPeek
    \/ RIsFresh

Spec == Init /\ [][Next]_vars

-----------------------------------------------------------------------------
(* The two variants driven in lock-step: both are constructed around the   *)
(* same value and every shared method is called on both with the same      *)
(* argument.  get_mut() exists on TrackedRef only and is not called.       *)

LNew(v) == TNewCall(v) /\ RNewCall(v) /\ DFrame

LSet(v) == TSetCall(v) /\ RSetCall(v) /\ DFrame

LGet == TGetCall /\ RGetCall /\ DFrame

LGetIfFresh == TGetIfFreshCall /\ RGetIfFreshCall /\ DFrame

LPeek == TPeekCall /\ RPeekCall /\ DFrame

LIsFresh == TIsFreshCall /\ RIsFreshCall /\ DFrame

InitLock ==
    \E v \in Values :
        /\ t = Tracked_new(v)
        /\ r = TrackedRef_new(v)
        /\ rview = "none"
        /\ ht = HistNew(v)
        /\ hr = HistNew(v)
        /\ lt = Call("new", v, Unit, Tracked_new(v))
        /\ lr = Call("new", v, Unit, TrackedRef_new(v))
        /\ ct = NoDup
        /\ cr = NoDup
        /\ ld = NoCall

NextLock ==
    \/ \E v \in Values : LNew(v)
    \/ \E v \in Values : LSet(v)
    \/ LGet
    \/ LGetIfFresh
    \/ LPeek
    \/ LIsFresh

SpecLock == InitLock /\ [][NextLock]_vars

-----------------------------------------------------------------------------
(* A Tracked and its copy, a TrackedRef and its clone, each called in any  *)
(* order.  The histories of t and r are not kept here.                     *)

HFrame == UNCHANGED <<lt, lr, ht, hr>>

\* let c = t;
DCopyT ==
    LET c == Tracked_clone(t) IN
    /\ t' = c.self
    /\ ct' = Bind(c.ret)
    /\ ld' = DupCall("t", "clone", t, FieldsOf(ct, t))
    /\ UNCHANGED <<r, rview, cr>>
    /\ HFrame

\* let c = r.clone();
DCloneR ==
    LET c == TrackedRef_clone(r) IN
    /\ r' = c.self
    /\ rview' = ViewAfter("clone", c.ret, rview)
    /\ cr' = Bind(c.ret)
    /\ ld' = DupCall("r", "clone", r, FieldsOf(cr, r))
    /\ UNCHANGED <<t, ct>>
    /\ HFrame

\* t.op(v)
DOnT(op, v) ==
    LET c == Tracked_call(op, t, v) IN
    /\ t' = c.self
    /\ ld' = DupCall("t", op, t, FieldsOf(ct, t))
    /\ UNCHANGED <<r, rview, ct, cr>>
    /\ HFrame

\* c.op(v), c the copy of t
DOnCT(op, v) ==
    LET self == FieldsOf(ct, t)
        c == Tracked_call(op, self, v) IN
    /\ ct.st # "none"
    /\ IF ct.st = "own"
       THEN ct' = [ct EXCEPT !.w = c.self] /\ t' = t
       ELSE ct' = ct /\ t' = c.self
    /\ ld' = DupCall("ct", op, self, t)
    /\ UNCHANGED <<r, rview, cr>>
    /\ HFrame

\* r.op(v)
DOnR(op, v) ==
    LET c == TrackedRef_call(op, r, v) IN
    /\ r' = c.self
    /\ rview' = ViewAfter(op, c.ret, rview)
    /\ ld' = DupCall("r", op, r, FieldsOf(cr, r))
    /\ UNCHANGED <<t, ct, cr>>
    /\ HFrame

\* *m = v, m the &mut T from r.get_mut()
DWriteR(v) ==
    /\ rview = "mut"
    /\ r' = [r EXCEPT !.val = v]
    /\ ld' = DupCall("r", "write", r, FieldsOf(cr, r))
    /\ UNCHANGED <<t, rview, ct, cr>>
    /\ HFrame

\* c.op(v), c the clone of r
DOnCR(op, v) ==
    LET self == FieldsOf(cr, r)
        c == TrackedRef_call(op, self, v) IN
    /\ cr.st # "none"
    /\ IF cr.st = "own"
       THEN /\ cr' = [cr EXCEPT !.w = c.self,
                                !.view = ViewAfter(op, c.ret, cr.view)]
            /\ r' = r
       ELSE /\ cr' = [cr EXCEPT !.view = ViewAfter(op, c.ret, cr.view)]
            /\ r' = c.self
    /\ ld' = DupCall("cr", op, self, r)
    /\ UNCHANGED <<t, rview, ct>>
    /\ HFrame

\* *m = v, m the &mut T from c.get_mut(), c the clone of r
DWriteCR(v) ==
    LET self == FieldsOf(cr, r) IN
    /\ cr.st # "none"
    /\ cr.view = "mut"
    /\ IF cr.st = "own"
       THEN cr' = [cr EXCEPT !.w.val = v] /\ r' = r
       ELSE cr' = cr /\ r' = [r EXCEPT !.val = v]
    /\ ld' = DupCall("cr", "write", self, r)
    /\ UNCHANGED <<t, rview, ct>>
    /\ HFrame

InitDup ==
    /\ t = Tracked_default
    /\ r = TrackedRef_new(T_default)
    /\ rview = "none"
    /\ ht = HistNew(T_default)
    /\ hr = HistNew(T_default)
    /\ lt = Call("default", NoVal, Unit, Tracked_default)
    /\ lr = Call("new", T_default, Unit, TrackedRef_new(T_default))
    /\ ct = NoDup
    /\ cr = NoDup
    /\ ld = NoCall

NextDup ==
    \/ DCopyT
    \/ DCloneR
    \/ \E op \in TOps : \E v \in Args(op) : DOnT(op, v)
    \/ \E op \in TOps : \E v \in Args(op) : DOnCT(op, v)
    \/ \E op \in ROps : \E v \in Args(op) : DOnR(op, v)
    \/ \E v \in Values : DWriteR(v)
    \/ \E op \in ROps : \E v \in Args(op) : DOnCR(op, v)
    \/ \E v \in Values : DWriteCR(v)

SpecDup == InitDup /\ [][NextDup]_vars

TypeOK ==
    /\ t \in [fresh : BOOLEAN, val : Values]
    /\ r \in [fresh : BOOLEAN, val : Values]
    /\ rview \in Views
    /\ lt.op \in Methods \ {"get_mut", "write"}
    /\ lr.op \in Methods
    /\ lt.pre \in [fresh : BOOLEAN, val : Values]
    /\ lr.pre \in [fresh : BOOLEAN, val : Values]
    /\ ht.differed \in BOOLEAN
    /\ hr.differed \in BOOLEAN
    /\ ct.st \in {"none", "own"}
    /\ cr.st \in {"none", "own"}
    /\ cr.view \in Views

-----------------------------------------------------------------------------
(* Claims                                                                  *)

\* C1: in both variants, after set(v2) on a wrapper whose value v1 # v2,
\* is_fresh() is true and peek() returns v2, fresh or stale before.
C1_SetDifferent ==
    /\ (lt.op = "set" /\ lt.pre.val # lt.arg) =>
          /\ Tracked_is_fresh(t).ret = Bool(TRUE)
          /\ Tracked_peek(t).ret = Val(lt.arg)
    /\ (lr.op = "set" /\ lr.pre.val # lr.arg) =>
          /\ TrackedRef_is_fresh(r).ret = Bool(TRUE)
          /\ TrackedRef_peek(r).ret = Val(lr.arg)

\* A stale Tracked and a fresh TrackedRef have both just been set to a
\* different value.
C1_Witness ==
    /\ lt.op = "set" /\ lt.pre.val # lt.arg /\ ~lt.pre.fresh
    /\ lr.op = "set" /\ lr.pre.val # lr.arg /\ lr.pre.fresh

\* C2: in both variants, set(v2) with v2 equal to the current value leaves
\* the fresh flag and the stored value exactly as they were.
C2_SetSameIsNoOp ==
    /\ (lt.op = "set" /\ lt.pre.val = lt.arg) => t = lt.pre
    /\ (lr.op = "set" /\ lr.pre.val = lr.arg) => r = lr.pre

\* A fresh Tracked and a stale TrackedRef have both just been set to the
\* value they already held.
C2_Witness ==
    /\ lt.op = "set" /\ lt.pre.val = lt.arg /\ lt.pre.fresh
    /\ lr.op = "set" /\ lr.pre.val = lr.arg /\ ~lr.pre.fresh

\* C3: in both variants, get() returns the stored value, leaves it stored,
\* and leaves is_fresh() false, fresh or stale before.
C3_Get ==
    /\ lt.op = "get" =>
          /\ lt.ret = Val(lt.pre.val)
          /\ t.val = lt.pre.val
          /\ Tracked_is_fresh(t).ret = Bool(FALSE)
    /\ lr.op = "get" =>
          /\ lr.ret = Val(lr.pre.val)
          /\ r.val = lr.pre.val
          /\ TrackedRef_is_fresh(r).ret = Bool(FALSE)

\* get() has just run on a fresh Tracked and on a stale TrackedRef.
C3_Witness ==
    /\ lt.op = "get" /\ lt.pre.fresh
    /\ lr.op = "get" /\ ~lr.pre.fresh

\* C4: in both variants, get_if_fresh() while fresh returns Some(value) and
\* leaves the wrapper stale with the value unchanged, as get() does; while
\* stale it returns None and changes neither the flag nor the value.
C4_GetIfFresh ==
    /\ (lt.op = "get_if_fresh" /\ lt.pre.fresh) =>
          /\ lt.ret = Some(lt.pre.val)
          /\ t = [fresh |-> FALSE, val |-> lt.pre.val]
          /\ t = Tracked_get(lt.pre).self
          /\ lt.ret.v = Tracked_get(lt.pre).ret.v
    /\ (lt.op = "get_if_fresh" /\ ~lt.pre.fresh) =>
          /\ lt.ret = None
          /\ t = lt.pre
    /\ (lr.op = "get_if_fresh" /\ lr.pre.fresh) =>
          /\ lr.ret = Some(lr.pre.val)
          /\ r = [fresh |-> FALSE, val |-> lr.pre.val]
          /\ r = TrackedRef_get(lr.pre).self
          /\ lr.ret.v = TrackedRef_get(lr.pre).ret.v
    /\ (lr.op = "get_if_fresh" /\ ~lr.pre.fresh) =>
          /\ lr.ret = None
          /\ r = lr.pre

\* get_if_fresh() has just run on a fresh Tracked and on a stale TrackedRef.
C4_Witness ==
    /\ lt.op = "get_if_fresh" /\ lt.pre.fresh
    /\ lr.op = "get_if_fresh" /\ ~lr.pre.fresh

\* C5: in TrackedRef, get_mut() leaves is_fresh() true, fresh or stale
\* before, with the value unchanged while nothing is written; a write
\* through the reference is what the next peek()/get() returns.
C5_GetMut ==
    /\ lr.op = "get_mut" =>
          /\ TrackedRef_is_fresh(r).ret = Bool(TRUE)
          /\ r.val = lr.pre.val
    /\ lr.op = "write" =>
          /\ TrackedRef_is_fresh(r).ret = Bool(TRUE)
          /\ TrackedRef_peek(r).ret = Val(lr.arg)
          /\ TrackedRef_get(r).ret = Val(lr.arg)

\* get_mut() has just run on a stale TrackedRef and nothing was written.
C5_Witness ==
    /\ lr.op = "get_mut" /\ ~lr.pre.fresh /\ r.val = lr.pre.val

\* C6: in both variants, a wrapper just constructed with new(v) has
\* is_fresh() true and peek() = v.
C6_New ==
    /\ lt.op = "new" =>
          /\ Tracked_is_fresh(t).ret = Bool(TRUE)
          /\ Tracked_peek(t).ret = Val(lt.arg)
    /\ lr.op = "new" =>
          /\ TrackedRef_is_fresh(r).ret = Bool(TRUE)
          /\ TrackedRef_peek(r).ret = Val(lr.arg)

\* Both wrappers have just been constructed, around different values.
C6_Witness ==
    /\ lt.op = "new" /\ lt.arg = MaxVal
    /\ lr.op = "new" /\ lr.arg = 0

\* C7: in both variants, peek() returns the stored value, is_fresh()
\* returns the flag, and neither changes the flag or the value.
C7_Observers ==
    /\ lt.op = "peek" => (lt.ret = Val(lt.pre.val) /\ t = lt.pre)
    /\ lt.op = "is_fresh" => (lt.ret = Bool(lt.pre.fresh) /\ t = lt.pre)
    /\ lr.op = "peek" => (lr.ret = Val(lr.pre.val) /\ r = lr.pre)
    /\ lr.op = "is_fresh" => (lr.ret = Bool(lr.pre.fresh) /\ r = lr.pre)

\* peek() has just run on a fresh TrackedRef, is_fresh() on a stale Tracked.
C7_Witness ==
    /\ lr.op = "peek" /\ lr.pre.fresh
    /\ lt.op = "is_fresh" /\ ~lt.pre.fresh

\* C8: in both variants, the fresh flag goes from true to false only in a
\* step that is get(), or get_if_fresh() called while fresh.
C8_StaleOnlyByRead ==
    [][ /\ (t.fresh /\ ~t'.fresh) =>
              \/ lt'.op = "get"
              \/ lt'.op = "get_if_fresh" /\ lt'.pre.fresh
        /\ (r.fresh /\ ~r'.fresh) =>
              \/ lr'.op = "get"
              \/ lr'.op = "get_if_fresh" /\ lr'.pre.fresh ]_vars

\* A fresh Tracked has been made stale by get() and a fresh TrackedRef by
\* get_if_fresh().
C8_Witness ==
    /\ lt.op = "get" /\ lt.pre.fresh /\ ~t.fresh
    /\ lr.op = "get_if_fresh" /\ lr.pre.fresh /\ ~r.fresh

\* C9 as stated: in both variants, is_fresh() is true exactly when the value
\* has been written (construction, or a mutation that changed the stored
\* value) since the last freshness-consuming read.
C9_FreshIffWritten_Original ==
    /\ t.fresh <=> ht.written
    /\ r.fresh <=> hr.written

\* C9 amended: in Tracked, is_fresh() is true exactly when the value has
\* been written since the last freshness-consuming read; in TrackedRef,
\* exactly when it has been written or get_mut() has been called since.
C9_FreshIffWrittenOrMut ==
    /\ t.fresh <=> ht.written
    /\ r.fresh <=> (hr.written \/ hr.mutGranted)

\* After a consuming read, get_mut() was called on the TrackedRef and the
\* stored value never changed: fresh although nothing was written.
C9_Witness ==
    /\ hr.hasRead /\ hr.mutGranted /\ ~hr.written /\ r.fresh
    /\ ht.hasRead /\ ht.written /\ t.fresh

\* C10 as stated: in both variants, once a consuming read has happened and
\* only set() calls since, is_fresh() is true (and get_if_fresh() returns
\* Some) only if the stored value is unequal to the value that read returned.
C10_FreshOnlyIfDiffers_Original ==
    /\ (ht.hasRead /\ (t.fresh \/ Tracked_get_if_fresh(t).ret.tag = "some"))
          => t.val # ht.lastRead
    /\ (hr.hasRead /\ ~hr.mutGranted
          /\ (r.fresh \/ TrackedRef_get_if_fresh(r).ret.tag = "some"))
          => r.val # hr.lastRead

\* C10 amended: ... only if the stored value has been unequal to the value
\* that read returned at some point since the read; it need not be unequal
\* now (set to a different value, then set back).
C10_FreshOnlyIfDiffered ==
    /\ (ht.hasRead /\ (t.fresh \/ Tracked_get_if_fresh(t).ret.tag = "some"))
          => ht.differed
    /\ (hr.hasRead /\ ~hr.mutGranted
          /\ (r.fresh \/ TrackedRef_get_if_fresh(r).ret.tag = "some"))
          => hr.differed

\* Both wrappers were read, set to a different value and set back to the
\* value that was read: fresh, holding the observed value.
C10_Witness ==
    /\ ht.hasRead /\ t.fresh /\ t.val = ht.lastRead
    /\ hr.hasRead /\ ~hr.mutGranted /\ r.fresh /\ r.val = hr.lastRead

\* C11: driven in lock-step through new, set, get, get_if_fresh, peek and
\* is_fresh, a Tracked and a TrackedRef hold equal values and equal fresh
\* flags after every step, and every call returns the same result in both.
C11_LockStep ==
    /\ t.val = r.val
    /\ t.fresh = r.fresh
    /\ lt.op = lr.op
    /\ lt.arg = lr.arg
    /\ lt.ret = lr.ret

\* Both wrappers were stale and have been made fresh by the same set().
C11_Witness ==
    /\ lt.op = "set" /\ ~lt.pre.fresh /\ t.fresh
    /\ lr.op = "set" /\ ~lr.pre.fresh /\ r.fresh

\* C12: in both variants, once a consuming read has happened and the value
\* has not been changed by set() nor get_mut() called since, every
\* get_if_fresh() returns None: a change is delivered at most once.
C12_DeliveredOnce ==
    [][ /\ (TGetIfFresh /\ ht.hasRead /\ ~ht.written) => lt'.ret = None
        /\ (RGetIfFresh /\ hr.hasRead /\ ~hr.written /\ ~hr.mutGranted)
              => lr'.ret = None ]_vars

\* Both wrappers have been read, then set to the value they held, and the
\* following get_if_fresh() returned None.
C12_Witness ==
    /\ lt.op = "get_if_fresh" /\ lt.ret = None /\ ht.hasRead
    /\ lr.op = "get_if_fresh" /\ lr.ret = None /\ hr.hasRead
    /\ ~ht.written /\ ~hr.written /\ ~hr.mutGranted

\* C14: in every reachable state of either variant every public method can
\* be called and returns a result of its type, get_if_fresh() returning
\* None only when stale; and from every reachable state one call leads to
\* the stale state and one call leads to the fresh state.
C14_NoFailure ==
    /\ ENABLED TGet /\ ENABLED TGetIfFresh /\ ENABLED TPeek
    /\ ENABLED TIsFresh /\ \A v \in Values : ENABLED TSet(v)
    /\ ENABLED RGet /\ ENABLED RGetMut /\ ENABLED RGetIfFresh /\ ENABLED RPeek
    /\ ENABLED RIsFresh /\ \A v \in Values : ENABLED RSet(v)
    /\ \A v \in Values :
          /\ Tracked_set(t, v).ret = Unit
          /\ TrackedRef_set(r, v).ret = Unit
    /\ Tracked_get(t).ret.tag = "val" /\ TrackedRef_get(r).ret.tag = "val"
    /\ TrackedRef_get_mut(r).ret.tag = "val"
    /\ Tracked_peek(t).ret.tag = "val" /\ TrackedRef_peek(r).ret.tag = "val"
    /\ Tracked_is_fresh(t).ret.tag = "bool"
    /\ TrackedRef_is_fresh(r).ret.tag = "bool"
    /\ Tracked_get_if_fresh(t).ret.tag \in {"some", "none"}
    /\ TrackedRef_get_if_fresh(r).ret.tag \in {"some", "none"}
    /\ Tracked_get_if_fresh(t).ret = None => ~t.fresh
    /\ TrackedRef_get_if_fresh(r).ret = None => ~r.fresh
    /\ ENABLED (TGet /\ ~t'.fresh)
    /\ ENABLED (RGet /\ ~r'.fresh)
    /\ ENABLED (\E v \in Values : TSet(v) /\ t'.fresh)
    /\ ENABLED (\E v \in Values : RSet(v) /\ r'.fresh)
    /\ ENABLED (RGetMut /\ r'.fresh)

\* Both wrappers are stale: get_if_fresh() has just returned None on the
\* Tracked and get() has just run on the TrackedRef.
C14_Witness ==
    /\ ~t.fresh /\ lt.op = "get_if_fresh" /\ lt.ret = None
    /\ ~r.fresh /\ lr.op = "get"

\* C15: Tracked::default() builds what Tracked::new(T::default()) builds:
\* a fresh wrapper whose peek() is the default value of T.
C15_Default ==
    lt.op = "default" =>
        /\ t = Tracked_new(T_default)
        /\ Tracked_is_fresh(t).ret = Bool(TRUE)
        /\ Tracked_peek(t).ret = Val(T_default)

\* default() has just been called.
C15_Witness ==
    /\ lt.op = "default" /\ t.val = T_default

\* C17: in both variants, a stale wrapper holds the value returned by the
\* most recent freshness-consuming read; in TrackedRef also across
\* get_mut() and writes through its reference.
C17_StaleMeansObserved ==
    /\ ~t.fresh => (ht.hasRead /\ t.val = ht.lastRead)
    /\ ~r.fresh => (hr.hasRead /\ r.val = hr.lastRead)

\* Both wrappers are stale; the TrackedRef was read while fresh and the
\* Tracked has since been set to the value it held.
C17_Witness ==
    /\ ~t.fresh /\ lt.op = "set"
    /\ ~r.fresh /\ lr.op = "get" /\ lr.pre.fresh

\* C18: in both variants, once set() has changed the stored value (or, in
\* TrackedRef, get_mut() has been called), is_fresh() is true until the
\* next get() or get_if_fresh(), and get_if_fresh() returns Some of the
\* value stored when it is called.
C18_NoChangeLost ==
    /\ ht.written =>
          /\ Tracked_is_fresh(t).ret = Bool(TRUE)
          /\ Tracked_get_if_fresh(t).ret = Some(t.val)
    /\ (hr.written \/ hr.mutGranted) =>
          /\ TrackedRef_is_fresh(r).ret = Bool(TRUE)
          /\ TrackedRef_get_if_fresh(r).ret = Some(r.val)

\* After a read the Tracked was set to a second value and then, still
\* fresh, to a third; after a read the TrackedRef had get_mut() called and
\* was then set.
C18_Witness ==
    /\ ht.hasRead /\ ht.written /\ lt.op = "set" /\ lt.pre.fresh
    /\ lt.pre.val # lt.arg /\ lt.arg # ht.lastRead /\ lt.pre.val # ht.lastRead
    /\ hr.hasRead /\ hr.mutGranted /\ lr.op = "set"

\* C13: in TrackedRef, clone() called fresh or stale produces a wrapper
\* with the original's value and the original's fresh flag, and leaves the
\* original's flag and value unchanged.
C13_Clone ==
    (ld.recv = "r" /\ ld.op = "clone") =>
        /\ cr.st # "none"
        /\ FieldsOf(cr, r).val = ld.pre.val
        /\ FieldsOf(cr, r).fresh = ld.pre.fresh
        /\ r = ld.pre

\* A stale TrackedRef has just been cloned.
C13_Witness ==
    /\ ld.recv = "r" /\ ld.op = "clone" /\ ~ld.pre.fresh /\ ~cr.w.fresh

\* C19: once a Tracked has been copied or a TrackedRef cloned, a call on the
\* duplicate leaves the original's flag and value as they were, and a call
\* on the original leaves the duplicate's as they were.
C19_Independent ==
    /\ ld.recv = "ct" => t = ld.other
    /\ ld.recv = "cr" => r = ld.other
    /\ (ld.recv = "t" /\ ld.op # "clone" /\ ct.st # "none")
          => FieldsOf(ct, t) = ld.other
    /\ (ld.recv = "r" /\ ld.op # "clone" /\ cr.st # "none")
          => FieldsOf(cr, r) = ld.other

\* get() has just consumed the freshness of the copy of a fresh Tracked,
\* and the original is still fresh.
C19_Witness ==
    /\ ld.recv = "ct" /\ ld.op = "get" /\ ld.pre.fresh
    /\ ~ct.w.fresh /\ t.fresh

====
